---------------------------- MODULE Spec2Model ----------------------------
(***************************************************************************)
(* Model of the numeric core of ring_resonator.py: the transmission        *)
(* function of RingResonatorAnimation, the wavelength scan of              *)
(* show_transmission_spectrum and the resonance detection it performs      *)
(* with scipy.signal.find_peaks.                                           *)
(*                                                                         *)
(* Numbers.  Floats are modelled by exact integer arithmetic:              *)
(*   - self.r and self.a are numerators over Scale (0.9 = 18/20);          *)
(*   - wavelengths and lengths are integers in units of 1/(NumSamples-1)   *)
(*     nm, the unit in which every np.linspace sample is an integer;       *)
(*   - the round-trip phase is kept modulo one turn, in PhaseSteps steps   *)
(*     per turn, and np.cos is Bhaskara's rational approximation in        *)
(*     fixed point (CosScale), exact at 0, pi/3, pi/2, 2pi/3 and pi;       *)
(*   - a transmission is the exact rational Scale^2 * num / den;           *)
(*   - a decibel value is truncated towards zero to whole decibels.        *)
(***************************************************************************)
EXTENDS Integers, Sequences, FiniteSets

VARIABLES
    pc,               \* position of the caller
    r,                \* self.r, numerator over Scale
    a,                \* self.a, numerator over Scale
    wavelength,       \* argument of transmission_function
    result,           \* what transmission_function returned
    transmission,     \* the array transmission (line 255), filled so far
    transmission_dB,  \* the array transmission_dB (line 259)
    peaks_idx,        \* the array peaks_idx (line 314), 1-based indices
    fsr_wavelength,   \* fsr_wavelength (line 329), or NoValue
    attrs,            \* the names of the attributes assigned on self
    steps,            \* the steps of construct run so far, in order
    objects_to_remove,\* objects_to_remove of final_summary (lines 377-384)
    fault             \* the exception raised by a read of an unassigned name

sceneVars == <<attrs, steps, objects_to_remove, fault>>

vars == <<pc, r, a, wavelength, result, transmission, transmission_dB,
          peaks_idx, fsr_wavelength, attrs, steps, objects_to_remove, fault>>

NoValue == [kind |-> "none"]

(* A Scene object on which construct has not run: no attribute of the      *)
(* program is assigned, nothing was raised.                                *)
NoFault == [error |-> "none"]

FreshScene ==
    /\ attrs = {}
    /\ steps = <<>>
    /\ objects_to_remove = {}
    /\ fault = NoFault

----------------------------------------------------------------------------
(* construct: the physical parameters, lines 12-17.                        *)

Scale == 20
r_lit == 18
a_lit == 19
n_eff_tenths == 24
ring_radius_nm == 10000
PiNum == 355
PiDen == 113

(* np.linspace(1540e-9, 1560e-9, 1000), line 254.                          *)
NumSamples == 1000
LambdaStartNm == 1540
LambdaStopNm == 1560
lambda_center_nm == 1550

(* find_peaks(-transmission_dB, height=5, distance=20), line 314.          *)
Height == 5
Distance == 20

(* Resolution of the phase and of the cosine.                              *)
QuarterSteps == 250
PhaseSteps == 4 * QuarterSteps
CosScale == 1000

(* Bounds of the inputs explored.                                          *)
ParamOver == 1
WaveStride == 37
NumPts == 24
ScenePts == 64
SpacingUnder == 5

----------------------------------------------------------------------------
(* Exact comparison of non-negative rationals n1/d1 and n2/d2 whose cross  *)
(* products would not fit the integers: by continued fractions.  A zero    *)
(* denominator stands for +infinity.                                       *)

RECURSIVE RatLess(_, _, _, _)
RatLess(n1, d1, n2, d2) ==
    IF d1 = 0 THEN FALSE
    ELSE IF d2 = 0 THEN TRUE
    ELSE LET q1 == n1 \div d1
             q2 == n2 \div d2
             m1 == n1 % d1
             m2 == n2 % d2
         IN  IF q1 # q2 THEN q1 < q2
             ELSE IF m2 = 0 THEN FALSE
             ELSE IF m1 = 0 THEN TRUE
             ELSE RatLess(d2, m2, d1, m1)

RatLeq(n1, d1, n2, d2) == ~RatLess(n2, d2, n1, d1)

----------------------------------------------------------------------------
(* Lengths in units of 1/(NumSamples-1) nm.                                *)

Unit == NumSamples - 1

(* self.L = 2 * np.pi * self.ring_radius, here in tens of units so that    *)
(* n_eff in tenths multiplies it to the optical path n_eff * L of line 236 *)
(* without leaving 32 bits.                                                *)
L == (2 * PiNum * (ring_radius_nm \div 10) * Unit) \div PiDen
OpticalPath == n_eff_tenths * L

(* lambda_range[i], i = 0 .. NumSamples-1 (np.linspace, line 254).         *)
lambda_range(i) == LambdaStartNm * Unit + (LambdaStopNm - LambdaStartNm) * i

(* phi = 2 * np.pi * self.n_eff * self.L / wavelength, modulo one turn and *)
(* in steps of 1/PhaseSteps turn (wavelength # 0).                         *)
PhaseIndex(w) ==
    LET lam == IF w < 0 THEN -w ELSE w
        rem == OpticalPath % lam
        p   == (rem * PhaseSteps) \div lam
    IN  IF w < 0 THEN (PhaseSteps - p) % PhaseSteps ELSE p

(* np.cos on a phase index: cos(2 pi t) ~ (1 - 16 t^2) / (1 + 4 t^2) for   *)
(* |t| <= 1/4, and cos(pi - x) = -cos(x) on the other half.                *)
CosQuarter(p) ==
    ((PhaseSteps * PhaseSteps - 16 * p * p) * CosScale)
        \div (PhaseSteps * PhaseSteps + 4 * p * p)

Cos(p) ==
    LET q == IF 2 * p > PhaseSteps THEN PhaseSteps - p ELSE p
    IN  IF q <= QuarterSteps THEN CosQuarter(q)
        ELSE -CosQuarter(2 * QuarterSteps - q)

----------------------------------------------------------------------------
(* transmission_function, lines 234-242.                                   *)

Numerator_HalfCross(an, rn, c) ==
    an * an * CosScale - an * rn * c + rn * rn * CosScale

Numerator_PlusCross(an, rn, c) ==
    an * an * CosScale + 2 * an * rn * c + rn * rn * CosScale

Denominator_PlusCross(an, rn, c) ==
    Scale * Scale * Scale * Scale * CosScale
        + 2 * an * rn * Scale * Scale * c
        + an * rn * an * rn * CosScale

(* numerator = a**2 - 2*a*r*np.cos(phi) + r**2, times Scale^2 * CosScale.  *)
Numerator(an, rn, c) == an * an * CosScale - 2 * an * rn * c + rn * rn * CosScale

(* denominator = 1 - 2*a*r*np.cos(phi) + (a*r)**2, times Scale^4*CosScale. *)
Denominator(an, rn, c) ==
    Scale * Scale * Scale * Scale * CosScale
        - 2 * an * rn * Scale * Scale * c
        + an * rn * an * rn * CosScale

(* return numerator / denominator: IEEE division of numpy floats, which    *)
(* raises nothing: x/0 is inf and 0/0 is nan.                              *)
Divide(num, den) ==
    IF den # 0 THEN [kind |-> "value", num |-> num, den |-> den]
    ELSE IF num = 0 THEN [kind |-> "nan"]
    ELSE [kind |-> "inf"]

(* The outcomes of transmission_function(w) with self.r = rn/Scale and     *)
(* self.a = an/Scale.  A zero wavelength divides by zero at line 236: an   *)
(* ndarray or numpy scalar gives inf, then cos(inf) = nan; a Python        *)
(* number raises ZeroDivisionError.                                        *)
transmission_function(an, rn, w) ==
    IF w = 0 THEN {[kind |-> "nan"], [kind |-> "ZeroDivisionError"]}
    ELSE LET c == Cos(PhaseIndex(w))
         IN  {Divide(Numerator(an, rn, c), Denominator(an, rn, c))}

----------------------------------------------------------------------------
(* The transmission function on bounded inputs.                            *)

Params == (0 - ParamOver) .. (Scale + ParamOver)

(* The wavelengths of the resonance orders in and around the scanned band. *)
Orders == (OpticalPath \div lambda_range(NumSamples - 1))
              .. (OpticalPath \div lambda_range(0) + 1)

Wavelengths ==
    {0, 0 - lambda_range(0)}
        \cup {lambda_range(i) : i \in {j \in 0 .. NumSamples - 1 : j % WaveStride = 0}}
        \cup {OpticalPath \div m : m \in Orders}

Init ==
    /\ pc = "call"
    /\ r \in Params
    /\ a \in Params
    /\ wavelength \in Wavelengths
    /\ result = NoValue
    /\ transmission = <<>>
    /\ transmission_dB = <<>>
    /\ peaks_idx = <<>>
    /\ fsr_wavelength = NoValue
    /\ FreshScene

Call ==
    /\ pc = "call"
    /\ result' \in transmission_function(a, r, wavelength)
    /\ pc' = "returned"
    /\ UNCHANGED <<r, a, wavelength, transmission, transmission_dB,
                   peaks_idx, fsr_wavelength>>
    /\ UNCHANGED sceneVars

Next == Call

Spec == Init /\ [][Next]_vars

----------------------------------------------------------------------------
(* scipy.signal.find_peaks as called at line 314, on 1-based sequences:    *)
(* local maxima (_local_maxima_1d), then the height condition, then the    *)
(* distance condition (_select_by_peak_distance), as the library computes  *)
(* them for the two conditions the call passes.                            *)

(* -transmission_dB, the argument x of the call.                           *)
Negated(s) == [i \in 1 .. Len(s) |-> 0 - s[i]]

(* The inner loop of _local_maxima_1d: from i_ahead, the first index that  *)
(* is the last one or holds a value other than x[i].                       *)
RECURSIVE ScanAhead(_, _, _)
ScanAhead(x, i, i_ahead) ==
    IF i_ahead < Len(x) /\ x[i_ahead] = x[i]
    THEN ScanAhead(x, i, i_ahead + 1)
    ELSE i_ahead

IsLeftEdge_NoPlateau(x, i) == x[i - 1] < x[i] /\ x[i + 1] < x[i]

(* Whether a peak starts at i (its left edge): the value rises into i and  *)
(* falls after the plateau that starts there.                              *)
IsLeftEdge(x, i) == x[i - 1] < x[i] /\ x[ScanAhead(x, i, i + 1)] < x[i]

(* The midpoint recorded for the peak whose left edge is i.                *)
Midpoint(x, i) == (i + (ScanAhead(x, i, i + 1) - 1)) \div 2

(* A finite set of integers as an ascending sequence.                      *)
RECURSIVE Ascending(_)
Ascending(S) ==
    IF S = {} THEN <<>>
    ELSE LET m == CHOOSE m \in S : \A k \in S : m <= k
         IN  <<m>> \o Ascending(S \ {m})

(* _local_maxima_1d: the midpoints of all peaks, first and last sample     *)
(* never among them, in ascending order.                                   *)
local_maxima_1d(x) ==
    Ascending({Midpoint(x, i) : i \in {j \in 2 .. Len(x) - 1 : IsLeftEdge(x, j)}})

(* The height condition: keep the peaks with x[peak] >= height.            *)
select_by_height(x, peaks, hmin) == SelectSeq(peaks, LAMBDA p : x[p] >= hmin)

(* np.argsort(priority): every ascending order of the positions; equal     *)
(* priorities may come in either order (the default sort is not stable).   *)
RECURSIVE ArgsortOf(_, _)
ArgsortOf(priority, S) ==
    IF S = {} THEN {<<>>}
    ELSE UNION {{<<j>> \o t : t \in ArgsortOf(priority, S \ {j})} :
                   j \in {j \in S : \A k \in S : priority[j] <= priority[k]}}

argsort(priority) == ArgsortOf(priority, DOMAIN priority)

Flagged_OffByOne(peaks, j, distance) ==
    {k \in DOMAIN peaks :
        \/ k < j /\ peaks[j] - peaks[k] < distance - 1
        \/ k > j /\ peaks[k] - peaks[j] < distance - 1}

Flagged_All(peaks, j, distance) == {k \in DOMAIN peaks : k # j}

(* The two inner loops of _select_by_peak_distance for the kept peak j:    *)
(* every earlier and later peak closer than distance is flagged.           *)
Flagged(peaks, j, distance) ==
    {k \in DOMAIN peaks :
        \/ k < j /\ peaks[j] - peaks[k] < distance
        \/ k > j /\ peaks[k] - peaks[j] < distance}

(* The outer loop of _select_by_peak_distance: highest priority first.     *)
RECURSIVE DistanceLoop(_, _, _, _, _)
DistanceLoop(peaks, distance, order, i, keep) ==
    IF i = 0 THEN keep
    ELSE LET j == order[i]
         IN  IF ~keep[j]
             THEN DistanceLoop(peaks, distance, order, i - 1, keep)
             ELSE DistanceLoop(peaks, distance, order, i - 1,
                      [k \in DOMAIN keep |->
                          keep[k] /\ k \notin Flagged(peaks, j, distance)])

select_by_peak_distance(peaks, distance, order) ==
    LET keep == DistanceLoop(peaks, distance, order, Len(peaks),
                             [k \in DOMAIN peaks |-> TRUE])
    IN  Ascending({peaks[k] : k \in {k \in DOMAIN peaks : keep[k]}})

(* The peaks that pass the height condition: the candidates.               *)
Candidates(x, height) == select_by_height(x, local_maxima_1d(x), height)

(* find_peaks(x, height=height, distance=distance): the possible results.  *)
find_peaks(x, height, distance) ==
    LET peaks    == Candidates(x, height)
        priority == [k \in DOMAIN peaks |-> x[peaks[k]]]
    IN  {select_by_peak_distance(peaks, distance, order) :
            order \in argsort(priority)}

----------------------------------------------------------------------------
(* Resonance detection on bounded sample data: a level spectrum with up to *)
(* three single-sample excursions at p1 > p2 > p3 (0: none), in whole      *)
(* decibels.                                                               *)

BaseLevels == {0, -6}
DipLevels == {-4, -5, -7, -9}
LastDipLevels == {-4, -9}

Samples(base, p1, d1, p2, d2, p3, d3) ==
    [i \in 1 .. NumPts |->
        IF i = p1 THEN d1 ELSE IF i = p2 THEN d2 ELSE IF i = p3 THEN d3 ELSE base]

Init_Peaks ==
    /\ pc = "samples"
    /\ r = r_lit
    /\ a = a_lit
    /\ wavelength = 0
    /\ result = NoValue
    /\ transmission = <<>>
    /\ \E base \in BaseLevels, d1 \in DipLevels, d2 \in DipLevels, d3 \in LastDipLevels :
         \E p1 \in 0 .. NumPts, p2 \in 0 .. NumPts, p3 \in 0 .. NumPts :
            /\ p1 = 0 \/ p1 > p2
            /\ p2 = 0 \/ p2 > p3
            /\ transmission_dB = Samples(base, p1, d1, p2, d2, p3, d3)
    /\ peaks_idx = <<>>
    /\ fsr_wavelength = NoValue
    /\ FreshScene

FindPeaks ==
    /\ pc = "samples"
    /\ peaks_idx' \in find_peaks(Negated(transmission_dB), Height, Distance)
    /\ pc' = "found"
    /\ UNCHANGED <<r, a, wavelength, result, transmission, transmission_dB,
                   fsr_wavelength>>
    /\ UNCHANGED sceneVars

Next_Peaks == FindPeaks

SpecPeaks == Init_Peaks /\ [][Next_Peaks]_vars

----------------------------------------------------------------------------
(* show_transmission_spectrum, lines 254-259 and 313-336: the scan of the  *)
(* band, the conversion to decibels, the detection and the FSR.            *)

(* 10 ** (-k/10) for k = 0 .. 9, in units of 1/10000.                      *)
TenthPowers == <<10000, 7943, 6310, 5012, 3981, 3162, 2512, 1995, 1585, 1259>>

(* Whether n/d <= 10 ** (-k/10), for n/d <= 10 ** (-(k-1)/10).  Below      *)
(* 10 ** -5 the numerator is scaled instead of the threshold, which then   *)
(* still fits 32 bits.                                                     *)
RECURSIVE TenTo(_)
TenTo(e) == IF e = 0 THEN 1 ELSE 10 * TenTo(e - 1)

AtMostLevel(n, d, k) ==
    LET decade == k \div 10
        mant   == TenthPowers[(k % 10) + 1]
    IN  IF decade <= 5
        THEN RatLeq(n, d, mant, 10000 * TenTo(decade))
        ELSE RatLeq(n * TenTo(decade - 5), d, mant, 10000 * TenTo(5))

(* The largest k <= 100 with n/d <= 10 ** (-k/10), for 0 < n/d <= 1.       *)
RECURSIVE Level(_, _, _)
Level(n, d, k) ==
    IF k < 100 /\ AtMostLevel(n, d, k + 1) THEN Level(n, d, k + 1) ELSE k

(* 10 * np.log10(transmission + 1e-10), line 259, truncated towards zero   *)
(* to whole decibels.  The offset 1e-10 is below the resolution of the     *)
(* model except at a transmission of 0, which it takes to -100 dB.         *)
Decibel(t) ==
    LET n == Scale * Scale * t.num
    IN  IF n = 0 THEN -100
        ELSE IF n <= t.den THEN 0 - Level(n, t.den, 0)
        ELSE Level(t.den, n, 0)

(* 1-based index k of the arrays stands for lambda_range[k - 1].           *)
LambdaAt(k) == lambda_range(k - 1)

(* FSR = lambda^2 / (n_eff * L) at the centre wavelength, the value the    *)
(* detected spacing is compared with.                                      *)
FSRExpected ==
    LET centre == lambda_center_nm * Unit
    IN  (centre * 100) \div (OpticalPath \div (centre \div 100))

Init_Scan ==
    /\ pc = "scan"
    /\ r = r_lit
    /\ a = a_lit
    /\ wavelength = lambda_range(0)
    /\ result = NoValue
    /\ transmission = <<>>
    /\ transmission_dB = <<>>
    /\ peaks_idx = <<>>
    /\ fsr_wavelength = NoValue
    /\ FreshScene

(* One element of transmission = self.transmission_function(lambda_range). *)
Sample ==
    /\ pc = "scan"
    /\ Len(transmission) < NumSamples
    /\ \E t \in transmission_function(a, r, wavelength) :
          /\ result' = t
          /\ transmission' = Append(transmission, t)
    /\ wavelength' = IF Len(transmission) + 1 < NumSamples
                     THEN lambda_range(Len(transmission) + 1)
                     ELSE wavelength
    /\ UNCHANGED <<pc, r, a, transmission_dB, peaks_idx, fsr_wavelength>>
    /\ UNCHANGED sceneVars

(* transmission_dB = 10 * np.log10(transmission + 1e-10).                  *)
ToDecibel ==
    /\ pc = "scan"
    /\ Len(transmission) = NumSamples
    /\ transmission_dB' = [k \in 1 .. NumSamples |-> Decibel(transmission[k])]
    /\ pc' = "plot"
    /\ UNCHANGED <<r, a, wavelength, result, transmission, peaks_idx, fsr_wavelength>>
    /\ UNCHANGED sceneVars

(* peaks_idx, _ = find_peaks(-transmission_dB, height=5, distance=20) and, *)
(* with more than one peak, fsr_wavelength = lambda_nm[peaks_idx[1]] -     *)
(* lambda_nm[peaks_idx[0]].                                                *)
MarkResonances ==
    /\ pc = "plot"
    /\ \E found \in find_peaks(Negated(transmission_dB), Height, Distance) :
          /\ peaks_idx' = found
          /\ fsr_wavelength' =
                 IF Len(found) > 1
                 THEN [kind |-> "value", nm |-> LambdaAt(found[2]) - LambdaAt(found[1])]
                 ELSE NoValue
    /\ pc' = "marked"
    /\ UNCHANGED <<r, a, wavelength, result, transmission, transmission_dB>>
    /\ UNCHANGED sceneVars

Next_Scan == Sample \/ ToDecibel \/ MarkResonances

SpecScan == Init_Scan /\ [][Next_Scan]_vars

----------------------------------------------------------------------------
(* construct, lines 10-37: the parameters, then the five steps in order on *)
(* one Scene object.  A step that reads an attribute nobody assigned       *)
(* raises AttributeError, a read of an unassigned local raises             *)
(* UnboundLocalError; either ends construct.                               *)

StepOrder ==
    <<"create_resonator_schematic", "show_equations", "animate_electric_field",
      "show_transmission_spectrum", "final_summary">>

(* The position after the step at position k of StepOrder.                 *)
After(k) == IF k < Len(StepOrder) THEN StepOrder[k + 1] ELSE "done"

Raise(error, names) == [error |-> error, names |-> names]

(* The spectra the scene is run on: the spectrum of construct's own ring   *)
(* over the scanned band, and combs of equal resonance dips (first dip,    *)
(* spacing, depth) as rings of other sizes give them.                      *)
ScanSpectrum ==
    [k \in 1 .. NumSamples |->
        Decibel(CHOOSE t \in transmission_function(a_lit, r_lit, LambdaAt(k)) : TRUE)]

Comb(first, spacing, depth) ==
    [i \in 1 .. ScenePts |->
        IF i >= first /\ (i - first) % spacing = 0 THEN depth ELSE 0]

SceneSpectra ==
    {ScanSpectrum}
        \cup {Comb(first, spacing, depth) :
                 first \in 1 .. ScenePts,
                 spacing \in (Distance - SpacingUnder) .. ScenePts,
                 depth \in DipLevels}

Init_Scene ==
    /\ pc = "construct"
    /\ r = 0
    /\ a = 0
    /\ wavelength = 0
    /\ result = NoValue
    /\ transmission = <<>>
    /\ transmission_dB \in SceneSpectra
    /\ peaks_idx = <<>>
    /\ fsr_wavelength = NoValue
    /\ FreshScene

(* A step that reads the attributes `reads` and then assigns `writes`.     *)
RunStep(k, reads, writes) ==
    /\ pc = StepOrder[k]
    /\ steps' = Append(steps, StepOrder[k])
    /\ IF reads \subseteq attrs
       THEN /\ attrs' = attrs \cup writes
            /\ fault' = fault
            /\ pc' = After(k)
       ELSE /\ attrs' = attrs
            /\ fault' = Raise("AttributeError", reads \ attrs)
            /\ pc' = "failed"

(* Lines 11-22: the physical parameters and the title.                     *)
ConstructParameters ==
    /\ pc = "construct"
    /\ r' = r_lit
    /\ a' = a_lit
    /\ attrs' = attrs \cup {"n_eff", "ring_radius", "L", "r", "a", "lambda_center"}
    /\ pc' = StepOrder[1]
    /\ UNCHANGED <<wavelength, result, transmission, transmission_dB, peaks_idx,
                   fsr_wavelength, steps, objects_to_remove, fault>>

(* create_resonator_schematic, lines 39-88.                                *)
CreateResonatorSchematic ==
    /\ RunStep(1, {}, {"schematic", "ring", "input_wg"})
    /\ UNCHANGED <<r, a, wavelength, result, transmission, transmission_dB,
                   peaks_idx, fsr_wavelength, objects_to_remove>>

(* show_equations, lines 90-126.                                           *)
ShowEquations ==
    /\ RunStep(2, {}, {"equations_group"})
    /\ UNCHANGED <<r, a, wavelength, result, transmission, transmission_dB,
                   peaks_idx, fsr_wavelength, objects_to_remove>>

(* animate_electric_field, lines 128-232.                                  *)
AnimateElectricField ==
    /\ RunStep(3, {"schematic", "input_wg", "ring"}, {})
    /\ UNCHANGED <<r, a, wavelength, result, transmission, transmission_dB,
                   peaks_idx, fsr_wavelength, objects_to_remove>>

DrawsArrow_ThreePeaks(n) == n >= 3

(* Line 328: the loop over peaks_idx[:3] assigns self.fsr_text in its      *)
(* first pass (i == 0), which exists with one peak or more, when           *)
(* len(peaks_idx) > 1.                                                     *)
SetsFsrText(n) == n >= 1 /\ n > 1

(* Line 343: the local fsr_arrow is assigned when len(peaks_idx) >= 2.     *)
DrawsArrow(n) == n >= 2

(* What show_transmission_spectrum stores at lines 363-369.                *)
StoredForCleanup ==
    {"axes", "transmission_curve", "resonance_markers", "plot_title",
     "x_label", "y_label", "coupling_info"}

(* show_transmission_spectrum, lines 244-371, on the spectrum of the run.  *)
ShowTransmissionSpectrum ==
    /\ pc = StepOrder[4]
    /\ steps' = Append(steps, StepOrder[4])
    /\ LET reads == {"schematic", "equations_group", "n_eff", "L", "r", "a"}
       IN  IF ~(reads \subseteq attrs)
           THEN /\ fault' = Raise("AttributeError", reads \ attrs)
                /\ pc' = "failed"
                /\ UNCHANGED <<attrs, peaks_idx, fsr_wavelength>>
           ELSE \E found \in find_peaks(Negated(transmission_dB), Height, Distance) :
                  LET n          == Len(found)
                      after_loop == IF SetsFsrText(n)
                                    THEN attrs \cup {"fsr_text"} ELSE attrs
                      has_text   == "fsr_text" \in after_loop
                      fsr_arrow  == has_text /\ DrawsArrow(n)
                      stored     == after_loop \cup StoredForCleanup
                  IN  /\ peaks_idx' = found
                      /\ fsr_wavelength' =
                             IF SetsFsrText(n)
                             THEN [kind |-> "value",
                                   nm |-> (found[2] - found[1])
                                              * (LambdaStopNm - LambdaStartNm)]
                             ELSE NoValue
                      /\ IF has_text /\ ~fsr_arrow
                         THEN /\ attrs' = stored
                              /\ fault' = Raise("UnboundLocalError", {"fsr_arrow"})
                              /\ pc' = "failed"
                         ELSE /\ attrs' = IF has_text
                                          THEN stored \cup {"fsr_arrow"} ELSE stored
                              /\ fault' = fault
                              /\ pc' = After(4)
    /\ UNCHANGED <<r, a, wavelength, result, transmission, transmission_dB,
                   objects_to_remove>>

(* final_summary, lines 373-415: what is faded out.                        *)
FinalSummary ==
    /\ pc = StepOrder[5]
    /\ steps' = Append(steps, StepOrder[5])
    /\ LET always == (StoredForCleanup \cup {"schematic"})
           reads  == IF "fsr_arrow" \in attrs
                     THEN always \cup {"fsr_arrow", "fsr_text"} ELSE always
       IN  IF reads \subseteq attrs
           THEN /\ objects_to_remove' = reads
                /\ fault' = fault
                /\ pc' = After(5)
           ELSE /\ objects_to_remove' = objects_to_remove
                /\ fault' = Raise("AttributeError", reads \ attrs)
                /\ pc' = "failed"
    /\ UNCHANGED <<r, a, wavelength, result, transmission, transmission_dB,
                   peaks_idx, fsr_wavelength, attrs>>

Next_Scene ==
    \/ ConstructParameters
    \/ CreateResonatorSchematic
    \/ ShowEquations
    \/ AnimateElectricField
    \/ ShowTransmissionSpectrum
    \/ FinalSummary

SpecScene == Init_Scene /\ [][Next_Scene]_vars

----------------------------------------------------------------------------
(* Claims about transmission_function, checked under Spec.                 *)

Valid(x) == x \in 0 .. Scale - 1
PhaseCos == Cos(PhaseIndex(wavelength))
Returned == pc = "returned"

(* C1: for every wavelength > 0 and every r and a in [0,1), the value      *)
(* returned by transmission_function is a number in [0,1]: the numerator   *)
(* is >= 0 and never exceeds the denominator.                              *)
C1_TransmissionInUnitInterval ==
    (Returned /\ wavelength > 0 /\ Valid(r) /\ Valid(a)) =>
        /\ result.kind = "value"
        /\ result.num >= 0
        /\ result.den > 0
        /\ Scale * Scale * result.num <= result.den

C1_Witness ==
    /\ Returned /\ wavelength > 0 /\ Valid(r) /\ Valid(a)
    /\ result.kind = "value"
    /\ result.num > 0
    /\ Scale * Scale * result.num < result.den

(* C2: when the denominator 1 - 2ar*cos(phi) + (ar)^2 is zero,             *)
(* transmission_function guards the division and returns the fallback      *)
(* value 0, not a fault and not a non-finite result.                       *)
C2_ZeroDenominatorReturnsZero ==
    (Returned /\ wavelength # 0 /\ Denominator(a, r, PhaseCos) = 0) =>
        (result.kind = "value" /\ result.num = 0)

(* C3: a call with an out-of-range input (wavelength <= 0, or r or a       *)
(* outside [0,1]) fails with InvalidParameter and returns no number.       *)
C3_OutOfRangeRejected ==
    (Returned /\ (wavelength <= 0 \/ r \notin 0 .. Scale \/ a \notin 0 .. Scale)) =>
        result.kind = "InvalidParameter"

(* C4: critical coupling: for every r = a in [0,1) the transmission at     *)
(* exact resonance (cos(phi) = 1) is 0, with a nonzero denominator.        *)
C4_CriticalCoupling ==
    (Returned /\ wavelength # 0 /\ r = a /\ Valid(a) /\ PhaseCos = CosScale) =>
        /\ result.kind = "value"
        /\ result.num = 0
        /\ result.den # 0

C4_Witness ==
    /\ Returned /\ wavelength > 0 /\ r = a /\ a = a_lit /\ PhaseCos = CosScale
    /\ result.kind = "value" /\ result.num = 0

(* Reference values of cos(phi) for the monotonicity of C5.                *)
RefCos == {0 - CosScale, 0 - (CosScale \div 2), 0, CosScale \div 2, CosScale}

(* C5: for every r and a in (0,1) the transmission is non-increasing in    *)
(* cos(phi) and minimal exactly at resonance (cos(phi) = 1): it is never   *)
(* below ((a - r)/(1 - ar))^2 and equals it only where cos(phi) = 1.       *)
C5_ResonanceMinimum ==
    (Returned /\ wavelength # 0 /\ r \in 1 .. Scale - 1 /\ a \in 1 .. Scale - 1) =>
        LET num0 == (a - r) * (a - r)
            den0 == (Scale * Scale - a * r) * (Scale * Scale - a * r)
        IN  /\ result.kind = "value"
            /\ RatLeq(num0, den0, result.num, result.den)
            /\ (PhaseCos = CosScale) <=> ~RatLess(num0, den0, result.num, result.den)
            /\ \A c2 \in RefCos :
                   /\ PhaseCos <= c2 =>
                          RatLeq(Numerator(a, r, c2), Denominator(a, r, c2),
                                 result.num, result.den)
                   /\ PhaseCos >= c2 =>
                          RatLeq(result.num, result.den,
                                 Numerator(a, r, c2), Denominator(a, r, c2))

C5_Witness ==
    /\ Returned /\ wavelength > 0 /\ r = r_lit /\ a = a_lit
    /\ PhaseCos < 0
    /\ result.kind = "value"
    /\ RatLess((a - r) * (a - r),
               (Scale * Scale - a * r) * (Scale * Scale - a * r),
               result.num, result.den)

----------------------------------------------------------------------------
(* Claims about resonance detection, checked under SpecPeaks.              *)

Found == pc = "found"
Interior == 2 .. Len(transmission_dB) - 1
ReturnedPeaks == {peaks_idx[k] : k \in DOMAIN peaks_idx}
Near(i, j) == i - j < Distance /\ j - i < Distance

(* Sample i is strictly lower than both of its neighbours.                 *)
StrictMinimum(i) ==
    /\ i \in Interior
    /\ transmission_dB[i] < transmission_dB[i - 1]
    /\ transmission_dB[i] < transmission_dB[i + 1]

(* Sample i is the middle (rounded down) of a run lo .. hi of equal        *)
(* samples inside the spectrum whose two neighbours are both higher.       *)
FlatMinimum(i) ==
    /\ i \in Interior
    /\ \E lo \in 2 .. i :
           \E hi \in {2 * i - lo, 2 * i - lo + 1} :
               /\ hi <= Len(transmission_dB) - 1
               /\ transmission_dB[lo - 1] > transmission_dB[i]
               /\ transmission_dB[hi + 1] > transmission_dB[i]
               /\ \A k \in lo .. hi : transmission_dB[k] = transmission_dB[i]

(* The depth of the minimum at i relative to the surrounding spectrum: on  *)
(* each side the highest sample before the spectrum drops below the        *)
(* minimum again; the prominence is the smaller of the two rises.          *)
MaxOf(S) == CHOOSE m \in S : \A k \in S : k <= m

LeftRise(i) ==
    LET lower == {k \in 1 .. i - 1 : transmission_dB[k] < transmission_dB[i]}
        from  == IF lower = {} THEN 1 ELSE MaxOf(lower) + 1
    IN  MaxOf({transmission_dB[k] : k \in from .. i}) - transmission_dB[i]

RightRise(i) ==
    LET n     == Len(transmission_dB)
        lower == {k \in i + 1 .. n : transmission_dB[k] < transmission_dB[i]}
        to    == IF lower = {} THEN n ELSE (CHOOSE m \in lower : \A k \in lower : m <= k) - 1
    IN  MaxOf({transmission_dB[k] : k \in i .. to}) - transmission_dB[i]

Prominence(i) == IF LeftRise(i) < RightRise(i) THEN LeftRise(i) ELSE RightRise(i)

(* C7 as stated: every returned index is a sample lower than both          *)
(* neighbours with prominence >= 5 dB, and every interior local minimum    *)
(* with that prominence is returned unless the minimum-distance rule       *)
(* rejects it.                                                             *)
C7_ProminentStrictMinima ==
    Found =>
        /\ \A i \in ReturnedPeaks : StrictMinimum(i) /\ Prominence(i) >= Height
        /\ \A i \in Interior :
               (StrictMinimum(i) /\ Prominence(i) >= Height) =>
                   (i \in ReturnedPeaks \/ \E j \in ReturnedPeaks : Near(i, j))

(* The candidate minima: the interior local minima (for a flat-bottomed    *)
(* one its middle sample) at or below -5 dB.                               *)
CandidateMinima ==
    {i \in Interior : transmission_dB[i] <= 0 - Height /\ FlatMinimum(i)}

(* C7 amended: every returned index is an interior local minimum (for a    *)
(* flat-bottomed one its middle sample) at or below -5 dB, an absolute     *)
(* level and not a prominence; and every such minimum is returned unless a *)
(* returned one at least as deep lies closer than the minimum distance.    *)
C7_MinimaAtOrBelowHeight ==
    Found =>
        LET cands == CandidateMinima
            ret   == ReturnedPeaks
        IN  /\ ret \subseteq cands
            /\ \A i \in cands \ ret :
                   \E j \in ret : Near(i, j) /\ transmission_dB[j] <= transmission_dB[i]

C7_Witness ==
    /\ Found
    /\ \E i \in ReturnedPeaks : ~StrictMinimum(i)
    /\ \E i \in ReturnedPeaks : StrictMinimum(i) /\ Prominence(i) < Height

(* C8: the returned peaks are in strictly ascending index order and any    *)
(* two of them are at least the minimum distance (20 samples) apart.       *)
C8_AscendingAndSeparated ==
    Found =>
        \A k \in DOMAIN peaks_idx, m \in DOMAIN peaks_idx :
            k < m => /\ peaks_idx[k] < peaks_idx[m]
                     /\ peaks_idx[m] - peaks_idx[k] >= Distance

C8_Witness ==
    /\ Found
    /\ Len(peaks_idx) >= 2
    /\ peaks_idx[2] - peaks_idx[1] = Distance
    /\ CandidateMinima # ReturnedPeaks

(* C9 as stated: of two candidate minima closer than the minimum distance  *)
(* exactly the deeper one is kept, and of two equally deep ones the        *)
(* earliest.                                                               *)
C9_DeeperKeptEarliestOnTie ==
    Found =>
        LET cands == CandidateMinima
            ret   == ReturnedPeaks
        IN  \A i \in cands, j \in cands :
                (i < j /\ Near(i, j)) =>
                    IF transmission_dB[i] <= transmission_dB[j]
                    THEN i \in ret /\ j \notin ret
                    ELSE j \in ret /\ i \notin ret

(* C9 amended: of two candidate minima closer than the minimum distance at *)
(* most one is kept; a candidate is discarded only when a kept candidate   *)
(* at least as deep lies within the minimum distance of it; so of two      *)
(* close candidates with no third one near exactly one is kept, the deeper *)
(* one when the depths differ.                                             *)
C9_AtMostOneDeeperWins ==
    Found =>
        LET cands == CandidateMinima
            ret   == ReturnedPeaks
        IN  /\ \A i \in cands, j \in cands :
                   (i < j /\ Near(i, j)) =>
                       /\ ~(i \in ret /\ j \in ret)
                       /\ (\A k \in cands \ {i, j} : ~Near(k, i) /\ ~Near(k, j)) =>
                              /\ i \in ret \/ j \in ret
                              /\ transmission_dB[i] < transmission_dB[j] => i \in ret
                              /\ transmission_dB[j] < transmission_dB[i] => j \in ret
            /\ \A i \in cands \ ret :
                   \E j \in ret : Near(i, j) /\ transmission_dB[j] <= transmission_dB[i]

C9_Witness ==
    /\ Found
    /\ LET cands == CandidateMinima
           ret   == ReturnedPeaks
       IN  \E i \in cands \ ret, j \in ret :
               /\ Near(i, j)
               /\ transmission_dB[j] < transmission_dB[i]
               /\ \A k \in cands \ {i, j} : ~Near(k, i) /\ ~Near(k, j)

----------------------------------------------------------------------------
(* Claims about the scan of construct's ring, checked under SpecScan.      *)

Marked == pc = "marked"
Abs(x) == IF x < 0 THEN 0 - x ELSE x

(* C6: with n_eff = 2.4, L = 2*pi*10e-6 m, r = 0.9, a = 0.95 and 1000      *)
(* samples over [1540, 1560] nm, detection yields at least two resonance   *)
(* peaks in the band, evenly spaced to within a tenth of the FSR, and the  *)
(* difference of the first two peak wavelengths is within a tenth of       *)
(* lambda^2 / (n_eff * L) at 1550 nm.                                      *)
C6_TwoPeaksOneFSRApart ==
    Marked =>
        /\ Len(peaks_idx) >= 2
        /\ fsr_wavelength.kind = "value"
        /\ 10 * Abs(fsr_wavelength.nm - FSRExpected) <= FSRExpected
        /\ \A k \in 2 .. Len(peaks_idx) - 1 :
               10 * Abs((LambdaAt(peaks_idx[k + 1]) - LambdaAt(peaks_idx[k]))
                          - (LambdaAt(peaks_idx[k]) - LambdaAt(peaks_idx[k - 1])))
                   <= FSRExpected

----------------------------------------------------------------------------
(* Claims about construct, checked under SpecScene.                        *)

(* Sequence s is an initial part of sequence t.                            *)
IsPrefix(s, t) == Len(s) <= Len(t) /\ \A k \in 1 .. Len(s) : s[k] = t[k]

SpectrumShown == pc \in {"final_summary", "done"}

(* The positions at which a step of construct is ready to run: each step's *)
(* action asks for nothing but its position.                               *)
Ready == pc = "construct" \/ \E k \in DOMAIN StepOrder : pc = StepOrder[k]

(* C11: whatever the number of detected peaks (0, 1, 2, 3 or more),        *)
(* construct runs its five steps in order to completion and no step reads  *)
(* an unassigned name: nothing is raised, until all five steps have run    *)
(* the next one is ready, fsr_text exists exactly when at least two peaks  *)
(* were found and fsr_arrow (read at line 371 when fsr_text exists)        *)
(* exactly when fsr_text does, and final_summary fades out fsr_arrow and   *)
(* fsr_text exactly when both exist.                                       *)
C11_RunsToCompletion ==
    /\ fault = NoFault
    /\ pc # "failed"
    /\ IsPrefix(steps, StepOrder)
    /\ pc # "done" => Ready
    /\ pc = "done" => steps = StepOrder
    /\ SpectrumShown =>
           /\ "fsr_text" \in attrs <=> Len(peaks_idx) >= 2
           /\ "fsr_arrow" \in attrs <=> "fsr_text" \in attrs
    /\ pc = "done" =>
           /\ objects_to_remove \subseteq attrs
           /\ {"fsr_arrow", "fsr_text"} \subseteq objects_to_remove
                  <=> {"fsr_arrow", "fsr_text"} \subseteq attrs
           /\ "fsr_arrow" \in objects_to_remove <=> "fsr_text" \in objects_to_remove

C11_Witness ==
    /\ pc = "done"
    /\ steps = StepOrder
    /\ Len(peaks_idx) >= 3
    /\ {"fsr_arrow", "fsr_text"} \subseteq objects_to_remove

=============================================================================
